---------------------------- MODULE Spec2Model ----------------------------
(***************************************************************************)
(* The ingestion and retrieval pipeline of src/vector_database.py: the     *)
(* process-wide handle _vector_db, the remote index named                  *)
(* PINECONE_INDEX_NAME, and the operations get_vector_db, save_to_pinecone,*)
(* query_data, close_vector_db, load_documents, text_spliter and           *)
(* process_files; with them create_index_if_not_exists of the              *)
(* PineconeMigrator (src/backend/scripts/pinecone_utilities.py), which     *)
(* works on the same index.  An operation is a call of a caller p; it      *)
(* advances one service call at a time (pc), so that the index service,    *)
(* or another caller, can act between two calls of the client.             *)
(*                                                                         *)
(* Spec      one caller, every operation, the service acting late or not.  *)
(* SpecSplit load_documents and text_spliter as functions of their input.  *)
(* SpecConc  two callers, one save_to_pinecone each, interleaved.          *)
(***************************************************************************)
EXTENDS Integers, Sequences, FiniteSets, TLC

\* ------------------------------------------------------------------ bounds
MaxFiles == 2
MaxK == 3
MaxParas == 3

\* --------------------------------------------------------------- constants
chunk_size == 500
chunk_overlap == 100

\* The callers.  Spec runs one caller, as the pipeline is synchronous;
\* SpecConc runs both.
Callers == {1, 2}

\* ------------------------------------------------------------------- files
\* The files a caller may name.  What the file system holds for each is fixed
\* here: the extension is the path's, the rest is what the loaders meet.
Files == {"a.txt", "b.txt", "c.txt", "d.txt", "e.pdf", "f.md", "h.exe"}

Ext(f) ==
    CASE f \in {"a.txt", "b.txt", "c.txt", "d.txt"} -> "txt"
      [] f = "e.pdf" -> "pdf"
      [] f = "f.md" -> "md"
      [] OTHER -> "other"

\* Outcome of TextLoader(f, encoding='utf-8').load()
Utf8(f) ==
    CASE f = "a.txt" -> "ok"
      [] f \in {"b.txt", "c.txt"} -> "UnicodeDecodeError"
      [] OTHER -> "OSError"

\* Outcome of TextLoader(f, encoding='latin-1').load()
Latin1(f) == IF f = "b.txt" THEN "ok" ELSE "OSError"

\* Outcome of PyPDFLoader(f).load() / UnstructuredMarkdownLoader(f).load()
LoaderOk(f) == f = "e.pdf"

\* The documents a successful load of f yields (a PDF yields one per page).
\* A document's text is kept as the lengths of its paragraphs: the paragraphs
\* are joined by a blank line ("\n\n") and hold no white space themselves.
Docs(f) ==
    CASE f = "a.txt" -> << [source |-> f, page |-> 0, paras |-> << 450 >>] >>
      [] f = "b.txt" -> << [source |-> f, page |-> 0, paras |-> << 900 >>] >>
      [] f = "e.pdf" -> << [source |-> f, page |-> 0, paras |-> << 300 >>],
                           [source |-> f, page |-> 1, paras |-> << >>] >>
      [] OTHER -> << >>

FileLists == UNION { [1..n -> Files] : n \in 0..MaxFiles }

Supported(f) == Ext(f) \in {"pdf", "md", "txt"}

\* ------------------------------------------------------- load_documents
NoError == [raised |-> FALSE, err |-> "", file |-> ""]
Raise(e, f) == [raised |-> TRUE, err |-> e, file |-> f]

\* load_documents with documents.extend(...) turned into an insertion at the
\* front: the documents come out in the reverse order of the paths.
RECURSIVE LoadFromPrepending(_, _, _)
LoadFromPrepending(files_paths, i, documents) ==
    IF i > Len(files_paths)
    THEN [exc |-> NoError, documents |-> documents]
    ELSE LET file_path == files_paths[i] IN
         CASE Ext(file_path) \in {"pdf", "md"} ->
                IF LoaderOk(file_path)
                THEN LoadFromPrepending(files_paths, i + 1, Docs(file_path) \o documents)
                ELSE [exc |-> Raise("LoaderError", file_path), documents |-> << >>]
           [] Ext(file_path) = "txt" ->
                IF Utf8(file_path) = "ok"
                THEN LoadFromPrepending(files_paths, i + 1, Docs(file_path) \o documents)
                ELSE IF Utf8(file_path) = "UnicodeDecodeError"
                THEN IF Latin1(file_path) = "ok"
                     THEN LoadFromPrepending(files_paths, i + 1, Docs(file_path) \o documents)
                     ELSE LoadFromPrepending(files_paths, i + 1, documents)
                ELSE [exc |-> Raise(Utf8(file_path), file_path), documents |-> << >>]
           [] OTHER -> [exc |-> Raise("ValueError: Unsupported file type", file_path),
                        documents |-> << >>]

\* load_documents with its final else branch lost: an unsupported extension
\* is passed over instead of raised.
RECURSIVE LoadFromSkipping(_, _, _)
LoadFromSkipping(files_paths, i, documents) ==
    IF i > Len(files_paths)
    THEN [exc |-> NoError, documents |-> documents]
    ELSE LET file_path == files_paths[i] IN
         CASE Ext(file_path) \in {"pdf", "md"} ->
                IF LoaderOk(file_path)
                THEN LoadFromSkipping(files_paths, i + 1, documents \o Docs(file_path))
                ELSE [exc |-> Raise("LoaderError", file_path), documents |-> << >>]
           [] Ext(file_path) = "txt" ->
                IF Utf8(file_path) = "ok"
                THEN LoadFromSkipping(files_paths, i + 1, documents \o Docs(file_path))
                ELSE IF Utf8(file_path) = "UnicodeDecodeError"
                THEN IF Latin1(file_path) = "ok"
                     THEN LoadFromSkipping(files_paths, i + 1, documents \o Docs(file_path))
                     ELSE LoadFromSkipping(files_paths, i + 1, documents)
                ELSE [exc |-> Raise(Utf8(file_path), file_path), documents |-> << >>]
           [] OTHER -> LoadFromSkipping(files_paths, i + 1, documents)

\* The loop of load_documents from its i-th path on, `documents` loaded so far.
\* A raise leaves the function without a value: no documents.
RECURSIVE LoadFrom(_, _, _)
LoadFrom(files_paths, i, documents) ==
    IF i > Len(files_paths)
    THEN [exc |-> NoError, documents |-> documents]
    ELSE LET file_path == files_paths[i] IN
         CASE Ext(file_path) \in {"pdf", "md"} ->
                \* line 120: loader.load() is not guarded
                IF LoaderOk(file_path)
                THEN LoadFrom(files_paths, i + 1, documents \o Docs(file_path))
                ELSE [exc |-> Raise("LoaderError", file_path), documents |-> << >>]
           [] Ext(file_path) = "txt" ->
                IF Utf8(file_path) = "ok"
                THEN LoadFrom(files_paths, i + 1, documents \o Docs(file_path))
                ELSE IF Utf8(file_path) = "UnicodeDecodeError"
                THEN IF Latin1(file_path) = "ok"
                     THEN LoadFrom(files_paths, i + 1, documents \o Docs(file_path))
                     ELSE LoadFrom(files_paths, i + 1, documents)   \* printed, skipped
                \* line 109 catches UnicodeDecodeError only
                ELSE [exc |-> Raise(Utf8(file_path), file_path), documents |-> << >>]
           [] OTHER -> [exc |-> Raise("ValueError: Unsupported file type", file_path),
                        documents |-> << >>]

load_documents(files_paths) == LoadFrom(files_paths, 1, << >>)

\* --------------------------------------------------------- text_spliter
\* RecursiveCharacterTextSplitter(chunk_size, chunk_overlap, length_function=len,
\* add_start_index=True) with the library's defaults: separators "\n\n", "\n",
\* " ", "", each kept at the front of the piece that follows it, and every
\* chunk stripped of white space at its ends.  A span is the slice
\* [start, start + len) of the text of a document.

\* len("\n\n")
ParagraphSeparator == 2

\* The pieces a text is cut into at "\n\n": the first paragraph, then every
\* further paragraph with the separator in front.  pos is where the piece
\* begins in the text.
RECURSIVE PiecePos(_, _)
PiecePos(paras, i) ==
    IF i = 1 THEN 0
    ELSE PiecePos(paras, i - 1) + paras[i - 1]
         + (IF i - 1 = 1 THEN 0 ELSE ParagraphSeparator)

Pieces(paras) ==
    [i \in 1..Len(paras) |->
        [pos |-> PiecePos(paras, i),
         sep |-> IF i = 1 THEN 0 ELSE ParagraphSeparator,
         body |-> paras[i]]]

PieceLen(d) == d.sep + d.body

\* _merge_splits over the characters of a text without separators, n
\* characters from base on: a chunk is cut when it holds size characters, and
\* the next one starts with the last overlap characters of it.
RECURSIVE Windows(_, _, _, _)
Windows(base, n, size, overlap) ==
    IF n <= size
    THEN IF n > 0 THEN << [start |-> base, len |-> n] >> ELSE << >>
    ELSE << [start |-> base, len |-> size] >>
         \o Windows(base + size - overlap, n - (size - overlap), size, overlap)

\* _join_docs of the pieces g[lo..hi], stripped: the separator in front of
\* the first piece goes.
Joined(g, lo, hi) ==
    LET start == g[lo].pos + g[lo].sep IN
    [start |-> start, len |-> g[hi].pos + PieceLen(g[hi]) - start]

\* The while loop of _merge_splits: pieces leave the front of the current
\* chunk g[lo..hi] until at most overlap characters are left and the next
\* piece (of len characters) fits.
RECURSIVE PopFront(_, _, _, _, _, _, _)
PopFront(g, lo, hi, total, len, size, overlap) ==
    IF lo <= hi /\ (total > overlap \/ (total + len > size /\ total > 0))
    THEN PopFront(g, lo + 1, hi, total - PieceLen(g[lo]), len, size, overlap)
    ELSE [lo |-> lo, total |-> total]

\* The for loop of _merge_splits from piece i on; g[lo..i-1] is the current
\* chunk and total its length.
RECURSIVE MergeFrom(_, _, _, _, _, _)
MergeFrom(g, i, lo, total, size, overlap) ==
    IF i > Len(g)
    THEN IF lo <= Len(g) THEN << Joined(g, lo, Len(g)) >> ELSE << >>
    ELSE LET len == PieceLen(g[i]) IN
         IF total + len > size /\ lo <= i - 1
         THEN LET r == PopFront(g, lo, i - 1, total, len, size, overlap) IN
              << Joined(g, lo, i - 1) >>
              \o MergeFrom(g, i + 1, r.lo, r.total + len, size, overlap)
         ELSE MergeFrom(g, i + 1, lo, total + len, size, overlap)

MergeSplits(g, size, overlap) == MergeFrom(g, 1, 1, 0, size, overlap)

\* _split_text on a piece of size characters or more, with the separators
\* that are left.  A first paragraph has no white space: it is cut by
\* characters.  A later one is "\n\n" and the paragraph: it is cut at "\n"
\* into "\n" and "\n" with the paragraph, and that is cut by characters when it
\* is too long still; stripping takes the "\n" at the front away.
BigPiece(d, size, overlap) ==
    IF d.sep = 0
    THEN Windows(d.pos, d.body, size, overlap)
    ELSE IF 1 + d.body < size
    THEN << [start |-> d.pos + d.sep, len |-> d.body] >>
    ELSE LET w == Windows(d.pos + 1, 1 + d.body, size, overlap) IN
         << [start |-> d.pos + d.sep, len |-> w[1].len - 1] >> \o Tail(w)

\* The loop of _split_text over the pieces from the i-th on; goods are the
\* pieces shorter than size met since the last long one.
RECURSIVE SplitPieces(_, _, _, _, _)
SplitPieces(pieces, i, goods, size, overlap) ==
    IF i > Len(pieces)
    THEN MergeSplits(goods, size, overlap)
    ELSE IF PieceLen(pieces[i]) < size
    THEN SplitPieces(pieces, i + 1, Append(goods, pieces[i]), size, overlap)
    ELSE MergeSplits(goods, size, overlap)
         \o BigPiece(pieces[i], size, overlap)
         \o SplitPieces(pieces, i + 1, << >>, size, overlap)

\* The chunks of one document.  add_start_index: the chunk carries the place
\* where its text is found in the document.
SplitText(doc, size, overlap) ==
    LET spans == SplitPieces(Pieces(doc.paras), 1, << >>, size, overlap) IN
    [i \in 1..Len(spans) |->
        [source |-> doc.source, page |-> doc.page,
         start_index |-> spans[i].start, len |-> spans[i].len]]

\* split_documents: document by document.
RECURSIVE SplitDocuments(_, _, _, _)
SplitDocuments(documents, i, size, overlap) ==
    IF i > Len(documents) THEN << >>
    ELSE SplitText(documents[i], size, overlap)
         \o SplitDocuments(documents, i + 1, size, overlap)

\* text_spliter with twice the chunk_overlap of line 130.
text_spliterWideOverlap(documents) ==
    SplitDocuments(documents, 1, chunk_size, 2 * chunk_overlap)

\* text_spliter with a chunk_size one overlap larger than the one of line 129.
text_spliterOversize(documents) ==
    SplitDocuments(documents, 1, chunk_size + chunk_overlap, chunk_overlap)

\* Lines 128-135.
text_spliter(documents) == SplitDocuments(documents, 1, chunk_size, chunk_overlap)

Range(s) == { s[i] : i \in 1..Len(s) }

\* ------------------------------------------------------------ the index
\* Record X: what an index that exists before the first ingestion may hold.
X == [source |-> "x.txt", page |-> 0, start_index |-> 0, len |-> 200]

Queries == {"qX", "q1"}

\* similarity_threshold and the relevance scores, in tenths: 7 is the default
\* 0.7, 11 is 1.1; a relevance score lies in 0..10.
Thresholds == {0, 5, 7, 11}
Scores == 0..10

\* The relevance score the service computes for a stored chunk and a query
\* (embedding of both, cosine similarity): fixed per pair, with ties.
Score(query, c) ==
    IF query = "qX"
    THEN CASE c.source = "x.txt" -> 10
           [] c.source = "a.txt" -> 3
           [] c.source = "b.txt" -> IF c.start_index = 0 THEN 6 ELSE 8
           [] OTHER -> 0
    ELSE CASE c.source = "x.txt" -> 2
           [] c.source = "a.txt" -> 9
           [] c.source = "b.txt" -> IF c.start_index = 0 THEN 9 ELSE 4
           [] OTHER -> 7

Min(a, b) == IF a < b THEN a ELSE b

\* What the service may answer to a top_k = k query over `records`: the k best
\* records (fewer when it holds fewer), each with its score, in any order.
Replies(records, query, k) ==
    LET n == Min(k, Cardinality(records))
        Tops == { S \in SUBSET records :
                    /\ Cardinality(S) = n
                    /\ \A a \in S, b \in records \ S : Score(query, a) >= Score(query, b) }
    IN  { [i \in 1..n |-> [doc |-> f[i], score |-> Score(query, f[i])]] :
            f \in { g \in UNION { [1..n -> S] : S \in Tops } :
                      \A i, j \in 1..n : i # j => g[i] # g[j] } }

\* sorted(...) left out: the results stay in the order of the reply.
Unsorted(s) == s

\* sorted(results, key=lambda x: x[1], reverse=True): stable, by insertion.
RECURSIVE InsertDesc(_, _)
InsertDesc(x, s) ==
    IF s = << >> THEN << x >>
    ELSE IF s[1].score >= x.score THEN << s[1] >> \o InsertDesc(x, Tail(s))
    ELSE << x >> \o s

RECURSIVE SortedDesc(_)
SortedDesc(s) ==
    IF s = << >> THEN << >>
    ELSE InsertDesc(s[Len(s)], SortedDesc(SubSeq(s, 1, Len(s) - 1)))

Take(s, k) == SubSeq(s, 1, Min(k, Len(s)))

\* Lines 79-83 with the score test of line 79 left out.
RankResultsNoThreshold(results, similarity_threshold, k) ==
    IF Len(results) = 0 THEN << >> ELSE Take(SortedDesc(results), k)

\* Lines 79-83 with the threshold clamped to the largest score.
RankResultsClamped(results, similarity_threshold, k) ==
    IF Len(results) = 0 \/ results[1].score < Min(similarity_threshold, 10)
    THEN << >>
    ELSE Take(SortedDesc(results), k)

\* Lines 79-83 of query_data, on the results of the similarity search.
RankResults(results, similarity_threshold, k) ==
    IF Len(results) = 0 \/ results[1].score < similarity_threshold
    THEN << >>
    ELSE Take(SortedDesc(results), k)

\* ------------------------------------------------------------- the state
VARIABLES
    PINECONE_API_KEY,   \* line 13: TRUE when the environment sets the key
    vector_db,          \* line 17: _vector_db: "None", or the handle, named by
                        \* the constructor that made it
    indexExists,        \* PINECONE_INDEX_NAME exists and serves requests
    indexRecords,       \* the chunks the index stores
    indexDimension,     \* the dimension the index was created with
    deleting,           \* a delete_index the service has accepted, not yet applied
    creating,           \* a create_index the service has accepted: the index is
                        \* listed, and not ready yet
    pc,                 \* per caller: "idle", the service call it is at, or "done"
    op,                 \* per caller: the operation it called
    arg,                \* per caller: the arguments of the call
    trace,              \* per caller: the service calls this call has issued
    reply,              \* per caller: what the similarity search answered
    ret                 \* per caller: how the call ended

vars == << PINECONE_API_KEY, vector_db, indexExists, indexRecords, indexDimension,
           deleting, creating, pc, op, arg, trace, reply, ret >>

service == << indexExists, indexRecords, indexDimension, deleting, creating >>

\* Line 59: the dimension of the OpenAI embeddings.
EMBEDDING_DIMENSION == 1536

\* pinecone.list_indexes().names() holds PINECONE_INDEX_NAME.
Listed == indexExists \/ creating

Handles == {"from_existing_index", "from_documents"}

NoArg == [files |-> << >>, overwrite |-> FALSE, chunks |-> << >>,
          documents |-> << >>,
          query_text |-> "", similarity_threshold |-> 0, k |-> 0,
          n |-> 0, batch_size |-> 0, i |-> 0, stamp |-> 0, ids0 |-> {},
          batches |-> << >>, ids |-> {}, index |-> FALSE, failed |-> {},
          force |-> FALSE, response |-> ""]

NoRet == [kind |-> "none", results |-> << >>, documents |-> << >>,
          chunks |-> << >>,
          ok |-> FALSE, err |-> "", file |-> "", handle |-> "None"]

Returned == [NoRet EXCEPT !.kind = "return"]

\* Every exception caught and dropped: the call returns its empty value.
RaisedSwallowed(p, e, f) ==
    IF op[p] \in {"process_files", "create_index_if_not_exists"}
    THEN [Returned EXCEPT !.ok = FALSE, !.err = e, !.file = f]
    ELSE Returned

\* No handler anywhere: the exception leaves every call.
RaisedUncaught(p, e, f) == [NoRet EXCEPT !.kind = "raise", !.err = e, !.file = f]

\* An exception leaving the call.  process_files (lines 151-153) catches it
\* and returns (False, str(e)); create_index_if_not_exists
\* (pinecone_utilities.py, lines 538-540) catches it and returns False;
\* migrate_from_chromadb (pinecone_utilities.py, lines 604-606 and 617-619)
\* does the same; nothing else has a handler.
Raised(p, e, f) ==
    IF op[p] \in {"process_files", "create_index_if_not_exists",
                  "migrate_from_chromadb"}
    THEN [Returned EXCEPT !.ok = FALSE, !.err = e, !.file = f]
    ELSE [NoRet EXCEPT !.kind = "raise", !.err = e, !.file = f]

\* The chunk lists a caller may hand to save_to_pinecone itself: the chunks of
\* at most one file.
ChunkLists ==
    { text_spliter(load_documents(fl).documents) :
        fl \in { l \in FileLists : Len(l) <= 1 /\ ~load_documents(l).exc.raised } }

\* The state outside the index and the handle, before any call.
InitCallers ==
    /\ pc = [p \in Callers |-> "idle"]
    /\ op = [p \in Callers |-> ""]
    /\ arg = [p \in Callers |-> NoArg]
    /\ trace = [p \in Callers |-> << >>]
    /\ reply = [p \in Callers |-> << >>]
    /\ ret = [p \in Callers |-> NoRet]

\* Line 156: the module calls get_vector_db() when it is imported.  An index
\* that exists then was made by this program (1536) or by someone else.
Init ==
    /\ PINECONE_API_KEY \in BOOLEAN
    /\ indexExists \in BOOLEAN
    /\ indexRecords \in (IF indexExists THEN {{}, {X}} ELSE {{}})
    /\ indexDimension \in (IF indexExists THEN {EMBEDDING_DIMENSION, 768}
                                          ELSE {EMBEDDING_DIMENSION})
    /\ vector_db = IF PINECONE_API_KEY /\ indexExists
                   THEN "from_existing_index" ELSE "None"
    /\ deleting = FALSE
    /\ creating = FALSE
    /\ InitCallers

Begin(p, name, a, next) ==
    /\ pc[p] = "idle"
    /\ op' = [op EXCEPT ![p] = name]
    /\ arg' = [arg EXCEPT ![p] = a]
    /\ pc' = [pc EXCEPT ![p] = next]
    /\ trace' = [trace EXCEPT ![p] = << >>]
    /\ reply' = [reply EXCEPT ![p] = << >>]

Finish(p, r) ==
    /\ pc' = [pc EXCEPT ![p] = "done"]
    /\ ret' = [ret EXCEPT ![p] = r]

Goto(p, next) ==
    /\ pc' = [pc EXCEPT ![p] = next]
    /\ UNCHANGED ret

Issue(p, call) == trace' = [trace EXCEPT ![p] = Append(@, call)]

\* A call of the index or the embedding service that fails (network, rate
\* limit): the trace keeps the call and that it failed.
ServiceFails(p, call) ==
    /\ trace' = [trace EXCEPT ![p] = @ \o << call, "error" >>]
    /\ Finish(p, Raised(p, "ServiceError", ""))
    /\ UNCHANGED << PINECONE_API_KEY, vector_db, service, op, arg, reply >>

\* A call the service refuses because of the state of the index.
Refused(p, call, why) ==
    /\ Issue(p, call)
    /\ Finish(p, Raised(p, why, ""))
    /\ UNCHANGED << PINECONE_API_KEY, vector_db, service, op, arg, reply >>

\* ---------------------------------------------------------- get_vector_db
CallGetVectorDb(p) ==
    /\ Begin(p, "get_vector_db", NoArg, "get_vector_db")
    /\ UNCHANGED << PINECONE_API_KEY, vector_db, service, ret >>

\* Line 72-76 for query_data, the return of line 37 for get_vector_db itself.
AfterGetVectorDb(p, h) ==
    IF op[p] = "query_data"
    THEN IF h = "None"
         THEN Finish(p, Returned)
         ELSE Goto(p, "similarity_search")
    ELSE Finish(p, [Returned EXCEPT !.handle = h])

\* get_vector_db without the test of line 24: the index is looked up and the
\* handle rebuilt on every call.
GetVectorDbAlways(p) ==
    /\ pc[p] = "get_vector_db"
    /\ UNCHANGED << PINECONE_API_KEY, service, op, arg, reply >>
    /\ IF ~PINECONE_API_KEY
       THEN /\ AfterGetVectorDb(p, vector_db)
            /\ UNCHANGED << vector_db, trace >>
       ELSE /\ Issue(p, "list_indexes")
            /\ vector_db' = IF Listed THEN "from_existing_index" ELSE vector_db
            /\ AfterGetVectorDb(p, vector_db')

\* Lines 23-37.  from_existing_index follows the listing at once; the two are
\* one step.
GetVectorDb(p) ==
    /\ pc[p] = "get_vector_db"
    /\ IF vector_db # "None" \/ ~PINECONE_API_KEY
       THEN /\ AfterGetVectorDb(p, vector_db)
            /\ UNCHANGED << PINECONE_API_KEY, service, op, arg, reply,
                            vector_db, trace >>
       ELSE \/ /\ Issue(p, "list_indexes")
               /\ vector_db' = IF Listed THEN "from_existing_index" ELSE "None"
               /\ AfterGetVectorDb(p, vector_db')
               /\ UNCHANGED << PINECONE_API_KEY, service, op, arg, reply >>
            \/ ServiceFails(p, "list_indexes")

\* ------------------------------------------------------------- query_data
CallQueryData(p, query_text, similarity_threshold, k) ==
    /\ Begin(p, "query_data",
             [NoArg EXCEPT !.query_text = query_text,
                           !.similarity_threshold = similarity_threshold,
                           !.k = k],
             "get_vector_db")
    /\ UNCHANGED << PINECONE_API_KEY, vector_db, service, ret >>

\* Lines 78-83: the query is embedded and searched through the handle, then
\* ranked.  Nothing here looks the index up or compares dimensions first.
SimilaritySearch(p) ==
    /\ pc[p] = "similarity_search"
    /\ \/ /\ indexExists /\ indexDimension = EMBEDDING_DIMENSION
          /\ \E results \in Replies(indexRecords, arg[p].query_text, arg[p].k) :
                /\ reply' = [reply EXCEPT ![p] = results]
                /\ Finish(p, [Returned EXCEPT !.results =
                        RankResults(results, arg[p].similarity_threshold, arg[p].k)])
          /\ Issue(p, "query")
          /\ UNCHANGED << PINECONE_API_KEY, vector_db, service, op, arg >>
       \/ /\ indexExists /\ indexDimension # EMBEDDING_DIMENSION
          /\ Refused(p, "query", "DimensionMismatch")
       \/ /\ ~indexExists
          /\ Refused(p, "query", IF creating THEN "NotReady" ELSE "NotFound")
       \/ ServiceFails(p, "embed")
       \/ ServiceFails(p, "query")

\* close_vector_db without the assignment of line 91.
CloseVectorDbNoReset(p) ==
    /\ Begin(p, "close_vector_db", NoArg, "done")
    /\ ret' = [ret EXCEPT ![p] = Returned]
    /\ UNCHANGED << PINECONE_API_KEY, vector_db, service >>

\* -------------------------------------------------------- close_vector_db
\* Lines 89-92.
CloseVectorDb(p) ==
    /\ Begin(p, "close_vector_db", NoArg, "done")
    /\ vector_db' = "None"
    /\ ret' = [ret EXCEPT ![p] = Returned]
    /\ UNCHANGED << PINECONE_API_KEY, service >>

\* --------------------------------------------------------- load_documents
\* Lines 96-123, called on its own.
LoadDocuments(p, files_paths) ==
    LET r == load_documents(files_paths) IN
    /\ pc[p] = "idle"
    /\ Begin(p, "load_documents", [NoArg EXCEPT !.files = files_paths], "done")
    /\ ret' = [ret EXCEPT ![p] =
                 IF r.exc.raised
                 THEN [NoRet EXCEPT !.kind = "raise", !.err = r.exc.err,
                                    !.file = r.exc.file]
                 ELSE [Returned EXCEPT !.documents = r.documents]]
    /\ UNCHANGED << PINECONE_API_KEY, vector_db, service >>

\* ------------------------------------------------------- save_to_pinecone
\* Lines 46-49: the key is checked before the client is built.
EnterSave(p, name, a) ==
    IF PINECONE_API_KEY
    THEN /\ Begin(p, name, a, "list_indexes_1")
         /\ UNCHANGED ret
    ELSE /\ Begin(p, name, a, "done")
         /\ ret' = [ret EXCEPT ![p] =
                      IF name = "process_files"
                      THEN [Returned EXCEPT !.ok = FALSE,
                                            !.err = "ValueError: PINECONE_API_KEY is not set."]
                      ELSE [NoRet EXCEPT !.kind = "raise",
                                         !.err = "ValueError: PINECONE_API_KEY is not set."]]

CallSaveToPinecone(p, chunks, overwrite) ==
    /\ pc[p] = "idle"
    /\ EnterSave(p, "save_to_pinecone",
                 [NoArg EXCEPT !.chunks = chunks, !.overwrite = overwrite])
    /\ UNCHANGED << PINECONE_API_KEY, vector_db, service >>

\* Line 53 without its `overwrite and`: an index that is listed is deleted
\* whatever the caller asked for.
ListIndexes1Always(p) ==
    /\ pc[p] = "list_indexes_1"
    /\ \/ /\ Issue(p, "list_indexes")
          /\ Goto(p, IF Listed THEN "delete_index" ELSE "list_indexes_2")
          /\ UNCHANGED << PINECONE_API_KEY, vector_db, service, op, arg, reply >>
       \/ ServiceFails(p, "list_indexes")

\* Line 53: `overwrite and ...` lists the indexes only when overwrite is set.
ListIndexes1(p) ==
    /\ pc[p] = "list_indexes_1"
    /\ \/ /\ ~arg[p].overwrite
          /\ Goto(p, "list_indexes_2")
          /\ UNCHANGED << PINECONE_API_KEY, vector_db, service, op, arg, trace, reply >>
       \/ /\ arg[p].overwrite
          /\ Issue(p, "list_indexes")
          /\ Goto(p, IF Listed THEN "delete_index" ELSE "list_indexes_2")
          /\ UNCHANGED << PINECONE_API_KEY, vector_db, service, op, arg, reply >>
       \/ /\ arg[p].overwrite
          /\ ServiceFails(p, "list_indexes")

\* Lines 54-55 without line 56: the index is deleted and _vector_db keeps the
\* handle it had.
DeleteIndexKeepingHandle(p) ==
    /\ pc[p] = "delete_index"
    /\ \/ /\ Listed
          /\ Issue(p, "delete_index")
          /\ \/ /\ indexExists' = FALSE
                /\ indexRecords' = {}
                /\ indexDimension' = EMBEDDING_DIMENSION
                /\ deleting' = FALSE
                /\ creating' = FALSE
             \/ /\ deleting' = TRUE
                /\ UNCHANGED << indexExists, indexRecords, indexDimension, creating >>
          /\ Goto(p, "list_indexes_2")
          /\ UNCHANGED << PINECONE_API_KEY, vector_db, op, arg, reply >>
       \/ /\ ~Listed
          /\ Refused(p, "delete_index", "NotFound")
       \/ ServiceFails(p, "delete_index")

\* Lines 54-56.  The service applies the deletion at once, or accepts it and
\* applies it later (ApplyDelete); the handle is reset either way.
DeleteIndex(p) ==
    /\ pc[p] = "delete_index"
    /\ \/ /\ Listed
          /\ Issue(p, "delete_index")
          /\ \/ /\ indexExists' = FALSE
                /\ indexRecords' = {}
                /\ indexDimension' = EMBEDDING_DIMENSION
                /\ deleting' = FALSE
                /\ creating' = FALSE
             \/ /\ deleting' = TRUE
                /\ UNCHANGED << indexExists, indexRecords, indexDimension, creating >>
          /\ vector_db' = "None"
          /\ Goto(p, "list_indexes_2")
          /\ UNCHANGED << PINECONE_API_KEY, op, arg, reply >>
       \/ /\ ~Listed
          /\ Refused(p, "delete_index", "NotFound")
       \/ ServiceFails(p, "delete_index")

\* Line 58 with its test dropped: create_index is called on every save.
ListIndexes2Always(p) ==
    /\ pc[p] = "list_indexes_2"
    /\ \/ /\ Issue(p, "list_indexes")
          /\ Goto(p, "create_index")
          /\ UNCHANGED << PINECONE_API_KEY, vector_db, service, op, arg, reply >>
       \/ ServiceFails(p, "list_indexes")

\* Line 58.
ListIndexes2(p) ==
    /\ pc[p] = "list_indexes_2"
    /\ \/ /\ Issue(p, "list_indexes")
          /\ Goto(p, IF Listed THEN "from_documents" ELSE "create_index")
          /\ UNCHANGED << PINECONE_API_KEY, vector_db, service, op, arg, reply >>
       \/ ServiceFails(p, "list_indexes")

\* What create_index does to the service: the index is ready at once, or the
\* request is accepted and the index becomes ready later (ApplyCreate).  The
\* dimension is the one of line 59 (the migrator's configuration has the same).
Created ==
    /\ \/ /\ indexExists' = TRUE
          /\ UNCHANGED creating
       \/ /\ creating' = TRUE
          /\ UNCHANGED indexExists
    /\ indexRecords' = {}
    /\ indexDimension' = EMBEDDING_DIMENSION
    /\ UNCHANGED deleting

\* Line 59.  A name that is taken is refused.
CreateIndex(p) ==
    /\ pc[p] = "create_index"
    /\ \/ /\ ~Listed
          /\ Issue(p, "create_index")
          /\ Created
          /\ Goto(p, "from_documents")
          /\ UNCHANGED << PINECONE_API_KEY, vector_db, op, arg, reply >>
       \/ /\ Listed
          /\ Refused(p, "create_index", "Conflict")
       \/ ServiceFails(p, "create_index")

\* Lines 62-69: Pinecone.from_documents embeds the chunks and upserts them
\* into the named index, and the handle it returns becomes _vector_db.
\* Vectors of the embedding dimension are refused by an index of another one.
FromDocuments(p) ==
    /\ pc[p] = "from_documents"
    /\ \/ /\ indexExists
          /\ arg[p].chunks = << >> \/ indexDimension = EMBEDDING_DIMENSION
          /\ Issue(p, "upsert")
          /\ indexRecords' = indexRecords \cup Range(arg[p].chunks)
          /\ vector_db' = "from_documents"
          /\ Finish(p, [Returned EXCEPT !.ok = TRUE, !.handle = "from_documents"])
          /\ UNCHANGED << PINECONE_API_KEY, indexExists, indexDimension, deleting,
                          creating, op, arg, reply >>
       \/ /\ indexExists
          /\ arg[p].chunks # << >> /\ indexDimension # EMBEDDING_DIMENSION
          /\ Refused(p, "upsert", "DimensionMismatch")
       \/ /\ ~indexExists
          /\ Refused(p, "upsert", IF creating THEN "NotReady" ELSE "NotFound")
       \/ ServiceFails(p, "embed")
       \/ ServiceFails(p, "upsert")

\* ---------------------------------------------------------- process_files
\* Lines 142-148: load and split; lines 150-154 continue as save_to_pinecone.
ProcessFiles(p, files_paths, overwrite) ==
    LET r == load_documents(files_paths)
        a == [NoArg EXCEPT !.files = files_paths, !.overwrite = overwrite]
    IN
    /\ pc[p] = "idle"
    /\ IF files_paths = << >>
       THEN /\ Begin(p, "process_files", a, "done")
            /\ ret' = [ret EXCEPT ![p] = [Returned EXCEPT !.ok = FALSE,
                         !.err = "ValueError: Either files_path or directory_path must be provided."]]
       ELSE IF r.exc.raised
       THEN /\ Begin(p, "process_files", a, "done")
            /\ ret' = [ret EXCEPT ![p] = [Returned EXCEPT !.ok = FALSE,
                         !.err = r.exc.err, !.file = r.exc.file]]
       ELSE EnterSave(p, "process_files",
                      [a EXCEPT !.chunks = text_spliter(r.documents)])
    /\ UNCHANGED << PINECONE_API_KEY, vector_db, service >>

\* ------------------------- PineconeMigrator.create_index_if_not_exists
\* pinecone_utilities.py, lines 497-501: initialized is `self.pc`, set by
\* initialize_pinecone when it succeeded.
CallCreateIndexIfNotExists(p, initialized) ==
    /\ pc[p] = "idle"
    /\ IF initialized
       THEN /\ Begin(p, "create_index_if_not_exists", NoArg, "mig_list_indexes")
            /\ UNCHANGED ret
       ELSE /\ Begin(p, "create_index_if_not_exists", NoArg, "done")
            /\ ret' = [ret EXCEPT ![p] = [Returned EXCEPT !.ok = FALSE,
                                            !.err = "not initialized"]]
    /\ UNCHANGED << PINECONE_API_KEY, vector_db, service >>

\* Lines 504-509.
MigListIndexes(p) ==
    /\ pc[p] = "mig_list_indexes"
    /\ \/ /\ Issue(p, "list_indexes")
          /\ IF Listed
             THEN Finish(p, [Returned EXCEPT !.ok = TRUE])
             ELSE Goto(p, "mig_create_index")
          /\ UNCHANGED << PINECONE_API_KEY, vector_db, service, op, arg, reply >>
       \/ ServiceFails(p, "list_indexes")

\* Lines 514-522.
MigCreateIndex(p) ==
    /\ pc[p] = "mig_create_index"
    /\ \/ /\ ~Listed
          /\ Issue(p, "create_index")
          /\ Created
          /\ Goto(p, "mig_describe_index")
          /\ UNCHANGED << PINECONE_API_KEY, vector_db, op, arg, reply >>
       \/ /\ Listed
          /\ Refused(p, "create_index", "Conflict")
       \/ ServiceFails(p, "create_index")

\* Lines 526-536: the loop leaves only when describe_index reports the index
\* ready; an index that is not ready, and a describe_index that raises, both
\* sleep and ask again.
MigDescribeIndex(p) ==
    /\ pc[p] = "mig_describe_index"
    /\ IF indexExists
       THEN /\ Issue(p, "describe_index")
            /\ Finish(p, [Returned EXCEPT !.ok = TRUE])
            /\ UNCHANGED << PINECONE_API_KEY, vector_db, service, op, arg, reply >>
       ELSE UNCHANGED vars

\* ------------------------------------------------------------ the service
\* The service applies a deletion it had accepted.
ApplyDelete ==
    /\ deleting
    /\ indexExists' = FALSE
    /\ indexRecords' = {}
    /\ indexDimension' = EMBEDDING_DIMENSION
    /\ deleting' = FALSE
    /\ creating' = FALSE
    /\ UNCHANGED << PINECONE_API_KEY, vector_db, pc, op, arg, trace, reply, ret >>

\* The index of a creation the service had accepted becomes ready.
ApplyCreate ==
    /\ creating
    /\ indexExists' = TRUE
    /\ creating' = FALSE
    /\ UNCHANGED << PINECONE_API_KEY, vector_db, indexRecords, indexDimension,
                    deleting, pc, op, arg, trace, reply, ret >>

\* The caller takes the result and is ready for its next call.
Return(p) ==
    /\ pc[p] = "done"
    /\ pc' = [pc EXCEPT ![p] = "idle"]
    /\ op' = [op EXCEPT ![p] = ""]
    /\ arg' = [arg EXCEPT ![p] = NoArg]
    /\ trace' = [trace EXCEPT ![p] = << >>]
    /\ reply' = [reply EXCEPT ![p] = << >>]
    /\ ret' = [ret EXCEPT ![p] = NoRet]
    /\ UNCHANGED << PINECONE_API_KEY, vector_db, service >>

Step(p) ==
    \/ CallGetVectorDb(p)
    \/ GetVectorDb(p)
    \/ \E q \in Queries, t \in Thresholds, k \in 1..MaxK : CallQueryData(p, q, t, k)
    \/ SimilaritySearch(p)
    \/ CloseVectorDb(p)
    \/ \E fl \in FileLists : LoadDocuments(p, fl)
    \/ \E c \in ChunkLists, o \in BOOLEAN : CallSaveToPinecone(p, c, o)
    \/ ListIndexes1(p)
    \/ DeleteIndex(p)
    \/ ListIndexes2(p)
    \/ CreateIndex(p)
    \/ FromDocuments(p)
    \/ \E fl \in FileLists, o \in BOOLEAN : ProcessFiles(p, fl, o)
    \/ \E initialized \in BOOLEAN : CallCreateIndexIfNotExists(p, initialized)
    \/ MigListIndexes(p)
    \/ MigCreateIndex(p)
    \/ MigDescribeIndex(p)
    \/ Return(p)

Next == Step(1) \/ ApplyDelete \/ ApplyCreate

Spec == Init /\ [][Next]_vars

\* ------------------------------------------- the functions on their own
\* The paragraph lengths of the texts text_spliter is given: well below
\* chunk_size, above half of it, two short of it, and several chunks long.
ParaLens == {60, 300, 498, 1300}

Texts == UNION { [1..n -> ParaLens] : n \in 0..MaxParas }

TextDocs == { [source |-> "t.txt", page |-> 0, paras |-> ps] : ps \in Texts }

FileDocs == UNION { Range(Docs(f)) : f \in Files }

\* The document lists text_spliter is called on: what load_documents returns,
\* a text, and a text before or after a document of a file.
DocLists ==
    { load_documents(fl).documents : fl \in FileLists }
    \cup { << d >> : d \in TextDocs }
    \cup { << d, e >> : d \in TextDocs, e \in FileDocs }
    \cup { << e, d >> : d \in TextDocs, e \in FileDocs }

\* Lines 125-136, called on its own.
TextSpliter(p, documents) ==
    /\ pc[p] = "idle"
    /\ Begin(p, "text_spliter", [NoArg EXCEPT !.documents = documents], "done")
    /\ ret' = [ret EXCEPT ![p] = [Returned EXCEPT !.chunks = text_spliter(documents)]]
    /\ UNCHANGED << PINECONE_API_KEY, vector_db, service >>

NextSplit ==
    \/ \E fl \in FileLists : LoadDocuments(1, fl)
    \/ \E documents \in DocLists : TextSpliter(1, documents)
    \/ Return(1)

\* load_documents and text_spliter called in any order, on every input.
SpecSplit == Init /\ [][NextSplit]_vars

\* -------------------------------------------------- two concurrent saves
SaveStep(p) ==
    \/ \E c \in ChunkLists, o \in BOOLEAN : CallSaveToPinecone(p, c, o)
    \/ ListIndexes1(p)
    \/ DeleteIndex(p)
    \/ ListIndexes2(p)
    \/ CreateIndex(p)
    \/ FromDocuments(p)

NextConc == SaveStep(1) \/ SaveStep(2) \/ ApplyDelete \/ ApplyCreate

\* Two callers (threads, or processes on the same index) each make one call
\* of save_to_pinecone; the calls interleave at the service calls.
SpecConc == Init /\ [][NextConc]_vars

\* ============================================ migrate_from_chromadb
\* pinecone_utilities.py, PineconeMigrator.migrate_from_chromadb.

\* The largest source collection.
MaxSource == 3

\* --batch-size is any integer (line 693: type=int, nothing checks it).
BatchSizes == {-1, 0, 1, 2}

\* Line 587: datetime.now() of a run.
Stamps == {1, 2}

\* A run that names the records after itself.
VectorIdStamped(i, stamp) == << "migrated_doc", stamp * (MaxSource + 1) + i >>

\* Line 583: 'id': f'migrated_doc_{i}'.
VectorId(i, stamp) == << "migrated_doc", i >>

\* Lines 582-591: the record of source vector i.
Vector(i, stamp) == [id |-> VectorId(i, stamp), stamp |-> stamp]

\* A record of the index that no migration wrote.
Y == [id |-> << "doc", 0 >>, stamp |-> 0]

Ids(records) == { r.id : r \in records }

\* index.upsert: a record replaces the record of the same id.
Upsert(records, batch) ==
    { r \in records : r.id \notin Ids(batch) } \cup batch

\* Line 598: vectors_to_upsert[i:i + batch_size], as source positions.
Batch(i, batch_size, n) == i .. (Min(i + batch_size, n) - 1)

\* The tools' own state: the index holds nothing or a record of another
\* writer; no creation or deletion is under way.
InitTools ==
    /\ PINECONE_API_KEY = TRUE
    /\ indexExists \in BOOLEAN
    /\ indexRecords \in (IF indexExists THEN {{}, {Y}} ELSE {{}})
    /\ indexDimension = EMBEDDING_DIMENSION
    /\ vector_db = "None"
    /\ deleting = FALSE
    /\ creating = FALSE
    /\ InitCallers

\* Line 542.
CallMigrateFromChromadb(p, n, batch_size, stamp) ==
    /\ Begin(p, "migrate_from_chromadb",
             [NoArg EXCEPT !.n = n, !.batch_size = batch_size, !.stamp = stamp,
                           !.ids0 = Ids(indexRecords)],
             "migrate_initialize")
    /\ UNCHANGED << PINECONE_API_KEY, vector_db, service, ret >>

\* Lines 552-553: initialize_pinecone() and its return value.
MigrateInitialize(p) ==
    /\ pc[p] = "migrate_initialize"
    /\ \/ /\ Goto(p, "migrate_get_collection")
          /\ UNCHANGED << PINECONE_API_KEY, vector_db, service, op, arg, trace,
                          reply >>
       \/ /\ Finish(p, [Returned EXCEPT !.ok = FALSE, !.err = "not initialized"])
          /\ UNCHANGED << PINECONE_API_KEY, vector_db, service, op, arg, trace,
                          reply >>

\* Lines 557-596: the collection is read; one without embeddings ends the run
\* with True; range(0, len, batch_size) raises for batch_size 0 and is empty
\* for a negative batch_size.
MigrateGetCollection(p) ==
    /\ pc[p] = "migrate_get_collection"
    /\ \/ Finish(p, [Returned EXCEPT !.ok = FALSE, !.err = "collection not found"])
       \/ /\ arg[p].n = 0
          /\ Finish(p, [Returned EXCEPT !.ok = TRUE])
       \/ /\ arg[p].n > 0
          /\ arg[p].batch_size = 0
          /\ Finish(p, Raised(p, "ValueError", ""))
       \/ /\ arg[p].n > 0
          /\ arg[p].batch_size # 0
          /\ Goto(p, IF arg[p].batch_size > 0 THEN "migrate_upsert"
                                              ELSE "migrate_stats")
    /\ UNCHANGED << PINECONE_API_KEY, vector_db, service, op, arg, trace, reply >>

\* Lines 597-609: one turn of the loop.
MigrateUpsert(p) ==
    /\ pc[p] = "migrate_upsert"
    /\ LET i == arg[p].i
           batch == Batch(i, arg[p].batch_size, arg[p].n)
       IN \/ /\ indexExists
             /\ Issue(p, "upsert")
             /\ indexRecords' =
                    Upsert(indexRecords,
                           { Vector(j, arg[p].stamp) : j \in batch })
             /\ arg' = [arg EXCEPT ![p].i = i + arg[p].batch_size,
                                   ![p].batches = Append(@, batch)]
             /\ Goto(p, IF i + arg[p].batch_size < arg[p].n
                        THEN "migrate_upsert" ELSE "migrate_stats")
             /\ UNCHANGED << PINECONE_API_KEY, vector_db, indexExists,
                             indexDimension, deleting, creating, op, reply >>
          \/ /\ ~indexExists
             /\ Refused(p, "upsert", "NotFound")
          \/ ServiceFails(p, "upsert")

\* Lines 611-615.
MigrateStats(p) ==
    /\ pc[p] = "migrate_stats"
    /\ \/ /\ indexExists
          /\ Issue(p, "describe_index_stats")
          /\ Finish(p, [Returned EXCEPT !.ok = TRUE])
          /\ UNCHANGED << PINECONE_API_KEY, vector_db, service, op, arg, reply >>
       \/ /\ ~indexExists
          /\ Refused(p, "describe_index_stats", "NotFound")
       \/ ServiceFails(p, "describe_index_stats")

\* The service gives up a creation it had accepted: the index never becomes
\* ready, and describe_index goes on answering "not ready" or raising.
CreationFails ==
    /\ creating
    /\ creating' = FALSE
    /\ UNCHANGED << PINECONE_API_KEY, vector_db, indexExists, indexRecords,
                    indexDimension, deleting, pc, op, arg, trace, reply, ret >>

MigStep(p) ==
    \/ \E initialized \in BOOLEAN : CallCreateIndexIfNotExists(p, initialized)
    \/ MigListIndexes(p)
    \/ MigCreateIndex(p)
    \/ MigDescribeIndex(p)
    \/ \E n \in 0..MaxSource, b \in BatchSizes, t \in Stamps :
           CallMigrateFromChromadb(p, n, b, t)
    \/ MigrateInitialize(p)
    \/ MigrateGetCollection(p)
    \/ MigrateUpsert(p)
    \/ MigrateStats(p)
    \/ Return(p)

NextMig == MigStep(1) \/ ApplyCreate \/ CreationFails

\* The migration tool, run by one operator.
SpecMig == InitTools /\ [][NextMig]_vars

\* The operator's process keeps running, and the service finishes a creation
\* it does not give up.
SpecMigFair ==
    InitTools /\ [][NextMig]_vars /\ WF_vars(MigStep(1)) /\ WF_vars(ApplyCreate)

\* ================================================== the smoke tests
\* pinecone_utilities.py, PineconeValidator.test_vector_operations and
\* validate_openai_integration; vector_data_validator.py,
\* VectorDataValidator.validate_vector_storage_integrity.

\* The records of a smoke test.
TestVectors(ids, stamp) == { [id |-> d, stamp |-> stamp] : d \in ids }

\* index.upsert(vectors=...) that the service accepts.
IndexUpsert(p, ids, next) ==
    /\ indexExists
    /\ Issue(p, "upsert")
    /\ indexRecords' = Upsert(indexRecords, TestVectors(ids, arg[p].stamp))
    /\ arg' = [arg EXCEPT ![p].ids = ids]
    /\ Goto(p, next)
    /\ UNCHANGED << PINECONE_API_KEY, vector_db, indexExists, indexDimension,
                    deleting, creating, op, reply >>

\* index.query(...) that the service answers.
IndexQuery(p, next) ==
    /\ indexExists
    /\ Issue(p, "query")
    /\ Goto(p, next)
    /\ UNCHANGED << PINECONE_API_KEY, vector_db, service, op, reply >>

\* index.delete(ids=...) that the service accepts.
IndexDelete(p, ids, r) ==
    /\ indexExists
    /\ Issue(p, "delete")
    /\ indexRecords' = { v \in indexRecords : v.id \notin ids }
    /\ Finish(p, r)
    /\ UNCHANGED << PINECONE_API_KEY, vector_db, indexExists, indexDimension,
                    deleting, creating, op, arg, reply >>

\* A call of the index or of the embedding service that raises, in a
\* function whose handler returns r.
CallFails(p, call, r) ==
    /\ trace' = [trace EXCEPT ![p] = @ \o << call, "error" >>]
    /\ Finish(p, r)
    /\ UNCHANGED << PINECONE_API_KEY, vector_db, service, op, arg, reply >>

Status(ok, e) == [Returned EXCEPT !.ok = ok, !.err = e]

\* ---- test_vector_operations
\* Lines 251 and 256: the ids of the two test vectors.
TestVectorIds == { << "test-vector", 1 >>, << "test-vector", 2 >> }

\* Lines 238-245.
CallTestVectorOperations(p, initialized) ==
    /\ IF initialized
       THEN /\ Begin(p, "test_vector_operations",
                     [NoArg EXCEPT !.index = TRUE], "tvo_upsert")
            /\ UNCHANGED ret
       ELSE /\ Begin(p, "test_vector_operations", NoArg, "done")
            /\ ret' = [ret EXCEPT ![p] = Status(FALSE, "Index not initialized")]
    /\ UNCHANGED << PINECONE_API_KEY, vector_db, service >>

\* Lines 265-280: a failing upsert is raised again and ends the test at
\* lines 337-342.
TvoUpsert(p) ==
    /\ pc[p] = "tvo_upsert"
    /\ \/ IndexUpsert(p, TestVectorIds, "tvo_query")
       \/ CallFails(p, "upsert", Status(FALSE, "upsert"))

\* Lines 283-301: a failing query is written down and the test goes on.
TvoQuery(p) ==
    /\ pc[p] = "tvo_query"
    /\ \/ /\ IndexQuery(p, "tvo_delete")
          /\ UNCHANGED arg
       \/ /\ trace' = [trace EXCEPT ![p] = @ \o << "query", "error" >>]
          /\ arg' = [arg EXCEPT ![p].failed = @ \cup {"query"}]
          /\ Goto(p, "tvo_delete")
          /\ UNCHANGED << PINECONE_API_KEY, vector_db, service, op, reply >>

\* Lines 304-335.
TvoDelete(p) ==
    /\ pc[p] = "tvo_delete"
    /\ \/ IndexDelete(p, TestVectorIds, Status(arg[p].failed = {}, ""))
       \/ CallFails(p, "delete", Status(FALSE, "delete"))

\* ---- validate_openai_integration
\* Line 384: test_id = f"openai-test-{int(time.time())}".
OpenaiTestIds(stamp) == { << "openai-test", stamp >> }

\* Lines 345-353, with OPENAI_API_KEY set.
CallValidateOpenaiIntegration(p, initialized, stamp) ==
    /\ Begin(p, "validate_openai_integration",
             [NoArg EXCEPT !.index = initialized, !.stamp = stamp], "voi_embed")
    /\ UNCHANGED << PINECONE_API_KEY, vector_db, service, ret >>

\* Lines 355-381: the embedding; without an index the test ends here.
VoiEmbed(p) ==
    /\ pc[p] = "voi_embed"
    /\ \/ /\ Issue(p, "embed")
          /\ IF arg[p].index
             THEN Goto(p, "voi_upsert")
             ELSE Finish(p, Status(TRUE, ""))
          /\ UNCHANGED << PINECONE_API_KEY, vector_db, service, op, arg, reply >>
       \/ CallFails(p, "embed", Status(FALSE, "embed"))

\* Lines 382-392 and 411-421: upsert, query and delete share one try; its
\* handler writes the error down and the test ends with status True.
VoiUpsert(p) ==
    /\ pc[p] = "voi_upsert"
    /\ \/ IndexUpsert(p, OpenaiTestIds(arg[p].stamp), "voi_query")
       \/ CallFails(p, "upsert", Status(TRUE, "upsert"))

\* Lines 395-400.
VoiQuery(p) ==
    /\ pc[p] = "voi_query"
    /\ \/ /\ IndexQuery(p, "voi_delete")
          /\ UNCHANGED arg
       \/ CallFails(p, "query", Status(TRUE, "query"))

\* Lines 403-421.
VoiDelete(p) ==
    /\ pc[p] = "voi_delete"
    /\ \/ IndexDelete(p, OpenaiTestIds(arg[p].stamp), Status(TRUE, ""))
       \/ CallFails(p, "delete", Status(TRUE, "delete"))

\* ---- validate_vector_storage_integrity
\* Lines 185-189: the positions of the default test documents.
TestDocuments == {0, 1, 2}

\* Line 197: vector_id = f"integrity_test_{i}_{timestamp}".
IntegrityTestIds(stamp) ==
    { << "integrity_test", Cardinality(TestDocuments) * stamp + i >> :
        i \in TestDocuments }

\* Lines 182-190.
CallValidateVectorStorageIntegrity(p, stamp) ==
    /\ Begin(p, "validate_vector_storage_integrity",
             [NoArg EXCEPT !.index = TRUE, !.stamp = stamp], "vsi_embed")
    /\ UNCHANGED << PINECONE_API_KEY, vector_db, service, ret >>

\* Lines 194-207: the embeddings of the test documents.
VsiEmbed(p) ==
    /\ pc[p] = "vsi_embed"
    /\ \/ /\ Issue(p, "embed")
          /\ Goto(p, "vsi_upsert")
          /\ UNCHANGED << PINECONE_API_KEY, vector_db, service, op, arg, reply >>
       \/ CallFails(p, "embed", Status(FALSE, "embed"))

\* Line 210; the handler of every failure is lines 266-272.
VsiUpsert(p) ==
    /\ pc[p] = "vsi_upsert"
    /\ \/ IndexUpsert(p, IntegrityTestIds(arg[p].stamp), "vsi_query")
       \/ CallFails(p, "upsert", Status(FALSE, "upsert"))

\* Lines 218-242: one query for each test vector.
VsiQuery(p) ==
    /\ pc[p] = "vsi_query"
    /\ \/ /\ IndexQuery(p, IF arg[p].i + 1 < Cardinality(TestDocuments)
                           THEN "vsi_query" ELSE "vsi_delete")
          /\ arg' = [arg EXCEPT ![p].i = @ + 1]
       \/ CallFails(p, "query", Status(FALSE, "query"))

\* Lines 245-264: the status is that of the retrieval scores.
VsiDelete(p) ==
    /\ pc[p] = "vsi_delete"
    /\ \/ \E ok \in BOOLEAN :
              IndexDelete(p, IntegrityTestIds(arg[p].stamp), Status(ok, ""))
       \/ CallFails(p, "delete", Status(FALSE, "delete"))

SmokeTests == {"test_vector_operations", "validate_openai_integration",
               "validate_vector_storage_integrity"}

SmokeStep(p) ==
    \/ \E initialized \in BOOLEAN : CallTestVectorOperations(p, initialized)
    \/ TvoUpsert(p)
    \/ TvoQuery(p)
    \/ TvoDelete(p)
    \/ \E initialized \in BOOLEAN, t \in Stamps :
           CallValidateOpenaiIntegration(p, initialized, t)
    \/ VoiEmbed(p)
    \/ VoiUpsert(p)
    \/ VoiQuery(p)
    \/ VoiDelete(p)
    \/ \E t \in Stamps : CallValidateVectorStorageIntegrity(p, t)
    \/ VsiEmbed(p)
    \/ VsiUpsert(p)
    \/ VsiQuery(p)
    \/ VsiDelete(p)
    \/ Return(p)

NextSmoke == SmokeStep(1)

\* The validation tools, run by one operator.
SpecSmoke == InitTools /\ [][NextSmoke]_vars

\* ================================================== the recovery tool
\* recover_pinecone.py, PineconeRecovery.

\* Line 232: response.lower().
Lower(r) == IF r = "Y" THEN "y" ELSE r

\* What the operator may type at the prompt of line 231.
Responses == {"y", "Y", "n", ""}

\* The force given to create_index_from_backup: its own parameter, or the
\* True of line 237 when recover_from_backup calls it.
Force(p) == op[p] = "recover_from_backup" \/ arg[p].force

\* Lines 138-152: a backup without index configuration, name or dimension
\* ends the call.
CallCreateIndexFromBackup(p, force, valid) ==
    /\ IF valid
       THEN /\ Begin(p, "create_index_from_backup",
                     [NoArg EXCEPT !.force = force], "rec_check")
            /\ UNCHANGED ret
       ELSE /\ Begin(p, "create_index_from_backup",
                     [NoArg EXCEPT !.force = force], "done")
            /\ ret' = [ret EXCEPT ![p] = Status(FALSE, "invalid backup")]
    /\ UNCHANGED << PINECONE_API_KEY, vector_db, service >>

\* Lines 209-237: the backup file is loaded; without force the operator is
\* asked, and any answer but 'y' ends the call.
CallRecoverFromBackup(p, force, response, loaded) ==
    /\ LET a == [NoArg EXCEPT !.force = force,
                              !.response = IF force THEN "" ELSE response]
       IN IF loaded /\ (force \/ Lower(response) = "y")
          THEN /\ Begin(p, "recover_from_backup", a, "rec_check")
               /\ UNCHANGED ret
          ELSE /\ Begin(p, "recover_from_backup", a, "done")
               /\ ret' = [ret EXCEPT ![p] =
                             Status(FALSE, IF loaded THEN "cancelled"
                                                     ELSE "load_backup")]
    /\ UNCHANGED << PINECONE_API_KEY, vector_db, service >>

\* An existing index is deleted whatever force says.
RecCheckForced(p) ==
    /\ pc[p] = "rec_check"
    /\ \/ /\ Issue(p, "list_indexes")
          /\ Goto(p, IF Listed THEN "rec_delete" ELSE "rec_create")
       \/ /\ trace' = [trace EXCEPT ![p] = @ \o << "list_indexes", "error" >>]
          /\ Goto(p, "rec_create")
    /\ UNCHANGED << PINECONE_API_KEY, vector_db, service, op, arg, reply >>

\* Lines 159-167 with check_index_exists (lines 110-117): a listing that
\* raises counts as "no such index".
RecCheck(p) ==
    /\ pc[p] = "rec_check"
    /\ \/ /\ Issue(p, "list_indexes")
          /\ IF ~Listed
             THEN Goto(p, "rec_create")
             ELSE IF Force(p)
                  THEN Goto(p, "rec_delete")
                  ELSE Finish(p, Status(FALSE, "index exists"))
       \/ /\ trace' = [trace EXCEPT ![p] = @ \o << "list_indexes", "error" >>]
          /\ Goto(p, "rec_create")
    /\ UNCHANGED << PINECONE_API_KEY, vector_db, service, op, arg, reply >>

\* Lines 119-122 and 134-136: delete_index; the service deletes at once or
\* accepts the deletion and applies it later.
RecDelete(p) ==
    /\ pc[p] = "rec_delete"
    /\ \/ /\ Listed
          /\ Issue(p, "delete_index")
          /\ \/ /\ indexExists' = FALSE
                /\ indexRecords' = {}
                /\ indexDimension' = EMBEDDING_DIMENSION
                /\ deleting' = FALSE
                /\ creating' = FALSE
             \/ /\ deleting' = TRUE
                /\ UNCHANGED << indexExists, indexRecords, indexDimension,
                                creating >>
          /\ Goto(p, "rec_wait_deleted")
          /\ UNCHANGED << PINECONE_API_KEY, vector_db, op, arg, reply >>
       \/ CallFails(p, "delete_index", Status(FALSE, "delete_index"))

\* Lines 128-133: the wait for the deletion; it ends when the index is no
\* longer listed, and also when the listing raises.
RecWaitDeleted(p) ==
    /\ pc[p] = "rec_wait_deleted"
    /\ \/ /\ ~Listed
          /\ Issue(p, "list_indexes")
          /\ Goto(p, "rec_create")
          /\ UNCHANGED << PINECONE_API_KEY, vector_db, service, op, arg, reply >>
       \/ /\ Listed
          /\ UNCHANGED vars
       \/ /\ trace' = [trace EXCEPT ![p] = @ \o << "list_indexes", "error" >>]
          /\ Goto(p, "rec_create")
          /\ UNCHANGED << PINECONE_API_KEY, vector_db, service, op, arg, reply >>

\* Lines 169-179 and 205-207.
RecCreate(p) ==
    /\ pc[p] = "rec_create"
    /\ \/ /\ ~Listed
          /\ Issue(p, "create_index")
          /\ Created
          /\ Goto(p, "rec_wait_ready")
          /\ UNCHANGED << PINECONE_API_KEY, vector_db, op, arg, reply >>
       \/ CallFails(p, "create_index", Status(FALSE, "create_index"))

\* Lines 186-203: the wait for the new index ends with its statistics or
\* after max_wait seconds; the call returns True either way.
RecWaitReady(p) ==
    /\ pc[p] = "rec_wait_ready"
    /\ \/ /\ indexExists
          /\ Issue(p, "describe_index_stats")
       \/ /\ ~indexExists
          /\ trace' = [trace EXCEPT ![p] = @ \o << "describe_index_stats",
                                                  "error" >>]
    /\ Finish(p, Status(TRUE, ""))
    /\ UNCHANGED << PINECONE_API_KEY, vector_db, service, op, arg, reply >>

RecStep(p) ==
    \/ \E force \in BOOLEAN, valid \in BOOLEAN :
           CallCreateIndexFromBackup(p, force, valid)
    \/ \E force \in BOOLEAN, response \in Responses, loaded \in BOOLEAN :
           CallRecoverFromBackup(p, force, response, loaded)
    \/ RecCheck(p)
    \/ RecDelete(p)
    \/ RecWaitDeleted(p)
    \/ RecCreate(p)
    \/ RecWaitReady(p)
    \/ Return(p)

NextRecover == RecStep(1) \/ ApplyDelete \/ ApplyCreate

\* The recovery tool, run by one operator.
SpecRecover == InitTools /\ [][NextRecover]_vars

\* ============================================================ properties
Done(p, name) == pc[p] = "done" /\ op[p] = name

\* The similarity search of this query_data call was answered by the index.
Answered(p) ==
    /\ Done(p, "query_data")
    /\ ret[p].kind = "return"
    /\ trace[p] # << >>
    /\ trace[p][Len(trace[p])] = "query"

\* A service call of this call failed: the service was unavailable, or it
\* refused the call for the state of the index.
ServiceFailed(p) ==
    ret[p].err \in {"ServiceError", "NotFound", "NotReady", "Conflict",
                    "DimensionMismatch"}

NonIncreasing(r) == \A i, j \in 1..Len(r) : i < j => r[i].score >= r[j].score

\* C1: query_data returns the empty list whenever the index answers with no
\* records or the highest score among the records it answers with is below
\* similarity_threshold, in whatever order the records arrive.
C1_EmptyOnMiss ==
    \A p \in Callers :
        ( /\ Answered(p)
          /\ \A i \in 1..Len(reply[p]) :
                reply[p][i].score < arg[p].similarity_threshold )
        => ret[p].results = << >>

\* A reply of two records in increasing score order, both below a threshold
\* that some score can reach, was answered with the empty list.
C1_Witness ==
    \E p \in Callers :
        /\ Answered(p)
        /\ Len(reply[p]) >= 2
        /\ reply[p][1].score < reply[p][2].score
        /\ arg[p].similarity_threshold \in Scores
        /\ \A i \in 1..Len(reply[p]) :
              reply[p][i].score < arg[p].similarity_threshold
        /\ ret[p].results = << >>

\* C2: a non-empty result of query_data holds the records of the reply in
\* non-increasing score order, cut to k: its length is min(k, length of the
\* reply), every entry is a record of the reply, and no record of the reply
\* that was left out has a higher score than one that was kept.
C2_SortedTopK ==
    \A p \in Callers :
        (Answered(p) /\ ret[p].results # << >>)
        => LET r == ret[p].results IN
           /\ Len(r) = Min(arg[p].k, Len(reply[p]))
           /\ NonIncreasing(r)
           /\ Range(r) \subseteq Range(reply[p])
           /\ Cardinality(Range(r)) = Len(r)
           /\ \A x \in Range(reply[p]) \ Range(r), y \in Range(r) :
                 x.score <= y.score

\* A reply that arrived out of score order was returned, non-empty.
C2_Witness ==
    \E p \in Callers :
        /\ Answered(p)
        /\ Len(reply[p]) >= 2
        /\ reply[p][1].score < reply[p][Len(reply[p])].score
        /\ Len(ret[p].results) = Len(reply[p])

\* C3: every (chunk, score) pair query_data returns has a score of at least
\* the similarity_threshold of the call.
C3_AllAboveThreshold ==
    \A p \in Callers :
        Answered(p)
        => \A i \in 1..Len(ret[p].results) :
              ret[p].results[i].score >= arg[p].similarity_threshold

C5_MissingIndexIsError ==
    \A p \in Callers :
        ( /\ Done(p, "query_data")
          /\ trace[p] = << "list_indexes" >>     \* listed, and no search followed
          /\ ret[p].err # "ServiceError" )
        => ret[p].kind = "raise"

\* C6: without the API key, save_to_pinecone, get_vector_db and query_data
\* end in an error that names the key, and no service call is issued.
C6_MissingKeyIsError ==
    \A p \in Callers :
        ( /\ pc[p] = "done"
          /\ op[p] \in {"save_to_pinecone", "get_vector_db", "query_data"}
          /\ ~PINECONE_API_KEY )
        => /\ ret[p].kind = "raise"
           /\ ret[p].err = "ValueError: PINECONE_API_KEY is not set."
           /\ trace[p] = << >>

\* C7: a path with an unsupported extension aborts load_documents with an
\* error and without documents, also when earlier paths were loaded; through
\* process_files the call returns (False, ...) and issues no service call, so
\* nothing is written to the index.
C7_UnsupportedAborts ==
    \A p \in Callers :
        (pc[p] = "done" /\ \E i \in 1..Len(arg[p].files) : ~Supported(arg[p].files[i]))
        => /\ op[p] = "load_documents" =>
                /\ ret[p].kind = "raise"
                /\ ret[p].documents = << >>
           /\ op[p] = "process_files" =>
                /\ ret[p].kind = "return" /\ ~ret[p].ok /\ ret[p].err # ""
                /\ trace[p] = << >>

\* process_files was given a loadable file and then an unsupported one, and
\* returned (False, ...) naming the unsupported one.
C7_Witness ==
    \E p \in Callers :
        /\ Done(p, "process_files")
        /\ PINECONE_API_KEY
        /\ Len(arg[p].files) = 2
        /\ ~load_documents(<< arg[p].files[1] >>).exc.raised
        /\ load_documents(<< arg[p].files[1] >>).documents # << >>
        /\ ~Supported(arg[p].files[2])
        /\ ~ret[p].ok
        /\ ret[p].file = arg[p].files[2]

\* C8: no single file aborts load_documents: when every path has a supported
\* extension the call returns, and it returns the documents of every file
\* that can be loaded.
C8_BadFileNeverAborts ==
    \A p \in Callers :
        ( /\ Done(p, "load_documents")
          /\ \A i \in 1..Len(arg[p].files) : Supported(arg[p].files[i]) )
        => /\ ret[p].kind = "return"
           /\ \A i \in 1..Len(arg[p].files) :
                 LET one == load_documents(<< arg[p].files[i] >>) IN
                 ~one.exc.raised => Range(one.documents) \subseteq Range(ret[p].documents)

\* C9: when process_files fails on one file of a batch (of supported
\* extensions), the chunks of the files that load are in the index, and the
\* report names the file that failed.
C9_ProgressKept ==
    \A p \in Callers :
        ( /\ Done(p, "process_files")
          /\ PINECONE_API_KEY
          /\ ~ServiceFailed(p)
          /\ \A i \in 1..Len(arg[p].files) : Supported(arg[p].files[i])
          /\ \E i \in 1..Len(arg[p].files) :
                load_documents(<< arg[p].files[i] >>).exc.raised )
        => /\ \A i \in 1..Len(arg[p].files) :
                 LET one == load_documents(<< arg[p].files[i] >>) IN
                 ~one.exc.raised =>
                     Range(text_spliter(one.documents)) \subseteq indexRecords
           /\ \E i \in 1..Len(arg[p].files) : ret[p].file = arg[p].files[i]

\* C10: after a successful ingestion with overwrite=True that found the index
\* and deleted it, the index exists and holds exactly the chunks of this
\* ingestion, also when the service applies deletions and creations late.
C10_OverwriteReplaces ==
    \A p \in Callers :
        ( /\ pc[p] = "done"
          /\ op[p] \in {"save_to_pinecone", "process_files"}
          /\ arg[p].overwrite
          /\ ret[p].kind = "return" /\ ret[p].ok
          /\ arg[p].chunks # << >>
          /\ "delete_index" \in Range(trace[p]) )
        => /\ indexExists
           /\ indexRecords = Range(arg[p].chunks)

\* C11: query_data and save_to_pinecone look the index up, and compare its
\* dimension with the embedding dimension, before the similarity search or
\* the upsert of the same call: every "query" and "upsert" of a call follows a
\* "list_indexes" of that call, and no call sends vectors to an index of
\* another dimension.
C11_CheckedBeforeUse ==
    \A p \in Callers :
        op[p] \in {"query_data", "save_to_pinecone"}
        => /\ \A i \in 1..Len(trace[p]) :
                 trace[p][i] \in {"query", "upsert"}
                 => \E j \in 1..(i - 1) : trace[p][j] = "list_indexes"
           /\ ret[p].err # "DimensionMismatch"

EnsureList == {"list_indexes_2", "mig_list_indexes"}

EnsureCreate == {"create_index", "mig_create_index"}

\* C12: the ensure-index step of save_to_pinecone and of
\* create_index_if_not_exists goes on to create_index exactly when the index
\* is not listed; when the index is listed the step leaves the index and its
\* records as they are; and its create_index is never refused for a name that
\* is taken, and makes the one index, empty.
C12_EnsureIdempotent ==
    [][ \A p \in Callers :
          /\ (pc[p] \in EnsureList /\ pc'[p] \in EnsureCreate) => ~Listed
          /\ (pc[p] \in EnsureList /\ pc'[p] \notin EnsureList \cup EnsureCreate
                /\ ret'[p].err = "")
             => Listed /\ UNCHANGED service
          /\ (pc[p] \in EnsureCreate /\ pc'[p] \notin EnsureCreate)
             => /\ ret'[p].err # "Conflict"
                /\ ret'[p].err = "" => ~Listed /\ Listed' /\ indexRecords' = {}
      ]_vars

\* A save that found the index of earlier saves and left it in place: it
\* issued no create_index, and the index holds the chunks of two files.
C12_Witness ==
    \E p \in Callers :
        /\ Done(p, "save_to_pinecone")
        /\ ret[p].ok
        /\ ~arg[p].overwrite
        /\ "create_index" \notin Range(trace[p])
        /\ X \notin indexRecords
        /\ Cardinality({ c.source : c \in indexRecords }) >= 2

\* The caller is at line 54 of a save with overwrite=True.
Destroying(p) ==
    /\ pc[p] = "delete_index"
    /\ op[p] \in {"save_to_pinecone", "process_files"}
    /\ arg[p].overwrite

\* C13: the index moves along absent -> created -> populated -> destroyed ->
\* absent.  Records are added only to an index that exists; an index that
\* appears is empty and was made by a create_index; records go only with the
\* index; and the index goes, at once or late, only by the delete_index of a
\* save with overwrite=True.
C13_Lifecycle ==
    [][ /\ ~(indexRecords' \subseteq indexRecords) => indexExists /\ indexExists'
        /\ (~Listed /\ Listed')
           => indexRecords' = {} /\ \E p \in Callers : pc[p] \in EnsureCreate
        /\ ~(indexRecords \subseteq indexRecords') => ~Listed'
        /\ (Listed /\ ~Listed') => deleting \/ \E p \in Callers : Destroying(p)
        /\ (~deleting /\ deleting') => \E p \in Callers : Destroying(p)
      ]_vars

\* One save went the whole way round: it deleted the index, created it again
\* and populated it.
C13_Witness ==
    \E p \in Callers :
        /\ Done(p, "save_to_pinecone")
        /\ arg[p].overwrite
        /\ trace[p] = << "list_indexes", "delete_index", "list_indexes",
                         "create_index", "upsert" >>
        /\ indexExists
        /\ indexRecords = Range(arg[p].chunks)
        /\ indexRecords # {}

\* C14: while _vector_db holds a handle, get_vector_db (called directly or
\* by query_data) hands out that handle, keeps it, and issues no service call
\* to do so; and the handle is replaced only by close_vector_db or by the
\* delete_index or from_documents of a save.
C14_HandleReused ==
    [][ /\ \A p \in Callers :
              (pc[p] = "get_vector_db" /\ pc'[p] # "get_vector_db"
                 /\ vector_db \in Handles)
              => /\ vector_db' = vector_db
                 /\ trace'[p] = trace[p]
                 /\ op[p] = "get_vector_db" => ret'[p].handle = vector_db
                 /\ op[p] = "query_data" => pc'[p] = "similarity_search"
        /\ (vector_db \in Handles /\ vector_db' # vector_db)
           => \E p \in Callers :
                 \/ pc[p] = "idle" /\ op'[p] = "close_vector_db"
                 \/ pc[p] \in {"delete_index", "from_documents"}
      ]_vars

\* A query_data call got the handle an earlier save had made, without a
\* service call, and is about to search through it.
C14_Witness ==
    \E p \in Callers :
        /\ op[p] = "query_data"
        /\ pc[p] = "similarity_search"
        /\ trace[p] = << >>
        /\ vector_db = "from_documents"

\* C19: a query_data call in which a service call failed (listing the
\* indexes, embedding the query, or the similarity search) raises; it does
\* not return, so it never returns the empty list of a threshold miss.
C19_FailureIsNotAMiss ==
    \A p \in Callers :
        (Done(p, "query_data") /\ "error" \in Range(trace[p]))
        => ret[p].kind = "raise" /\ ret[p].err = "ServiceError"

\* A query_data call without a cached handle listed the indexes, the listing
\* failed, and the call raised.
C19_Witness ==
    \E p \in Callers :
        /\ Done(p, "query_data")
        /\ trace[p] = << "list_indexes", "error" >>
        /\ ret[p].kind = "raise"

\* C15: every chunk text_spliter returns has at most chunk_size characters.
C15_ChunkSizeBound ==
    \A p \in Callers :
        Done(p, "text_spliter")
        => \A i \in 1..Len(ret[p].chunks) : ret[p].chunks[i].len <= chunk_size

\* text_spliter was given a paragraph several chunks long after another
\* paragraph, and returned chunks of exactly chunk_size characters.
C15_Witness ==
    \E p \in Callers :
        /\ Done(p, "text_spliter")
        /\ \E i \in 1..Len(arg[p].documents) :
              /\ Len(arg[p].documents[i].paras) >= 2
              /\ arg[p].documents[i].paras[2] > 2 * chunk_size
        /\ Cardinality({ i \in 1..Len(ret[p].chunks) :
                            ret[p].chunks[i].len = chunk_size }) >= 2

\* A chunk belongs to the document whose source and page it carries.
SameDocument(c, d) == c.source = d.source /\ c.page = d.page

\* No two documents of the call carry the same source and page, so every
\* chunk tells its document.
Told(p) ==
    /\ Done(p, "text_spliter")
    /\ \A i, j \in 1..Len(arg[p].documents) :
          i # j => ~SameDocument(arg[p].documents[i], arg[p].documents[j])

\* Chunk i + 1 is the last chunk of its document.
LastOfDocument(chunks, i) ==
    i + 1 = Len(chunks) \/ ~SameDocument(chunks[i + 1], chunks[i + 2])

\* C16: two consecutive chunks of the same document share exactly
\* chunk_overlap characters: the second starts chunk_overlap characters
\* before the end of the first, unless it is the last chunk of the document
\* and shorter than chunk_size.
C16_ExactOverlap ==
    \A p \in Callers :
        Told(p)
        => LET chunks == ret[p].chunks IN
           \A i \in 1..(Len(chunks) - 1) :
              ( /\ SameDocument(chunks[i], chunks[i + 1])
                /\ ~(LastOfDocument(chunks, i) /\ chunks[i + 1].len < chunk_size) )
              => chunks[i].start_index + chunks[i].len - chunks[i + 1].start_index
                    = chunk_overlap

\* The characters chunk i and chunk i + 1 share: negative when text of the
\* document (a separator) lies between them.
Overlap(chunks, i) ==
    chunks[i].start_index + chunks[i].len - chunks[i + 1].start_index

\* C16, amended: two consecutive chunks of the same document share at most
\* chunk_overlap characters, and the second starts after the first does; in a
\* document of one paragraph without white space, which is cut by characters,
\* they share exactly chunk_overlap characters.
C16_OverlapAtMost ==
    \A p \in Callers :
        Told(p)
        => LET chunks == ret[p].chunks IN
           \A i \in 1..(Len(chunks) - 1) :
              SameDocument(chunks[i], chunks[i + 1])
              => /\ Overlap(chunks, i) <= chunk_overlap
                 /\ chunks[i].start_index < chunks[i + 1].start_index
                 /\ (\A j \in 1..Len(arg[p].documents) :
                        SameDocument(chunks[i], arg[p].documents[j])
                        => Len(arg[p].documents[j].paras) = 1)
                    => Overlap(chunks, i) = chunk_overlap

\* text_spliter cut a document at its paragraphs, and two consecutive chunks,
\* neither the last of the document, share less than chunk_overlap
\* characters.
C16_Witness ==
    \E p \in Callers :
        /\ Told(p)
        /\ \E i \in 1..(Len(ret[p].chunks) - 2) :
              /\ SameDocument(ret[p].chunks[i], ret[p].chunks[i + 1])
              /\ SameDocument(ret[p].chunks[i + 1], ret[p].chunks[i + 2])
              /\ Overlap(ret[p].chunks, i) < chunk_overlap

\* The documents of the paths one by one, in the order of the paths.
RECURSIVE InPathOrder(_, _)
InPathOrder(files_paths, i) ==
    IF i > Len(files_paths) THEN << >>
    ELSE load_documents(<< files_paths[i] >>).documents
         \o InPathOrder(files_paths, i + 1)

\* The chunks of the documents one by one, in the order of the documents.
RECURSIVE InDocumentOrder(_, _)
InDocumentOrder(documents, i) ==
    IF i > Len(documents) THEN << >>
    ELSE text_spliter(<< documents[i] >>) \o InDocumentOrder(documents, i + 1)

\* C18: load_documents returns the documents of the paths in the order of the
\* paths, a skipped file leaving no gap; text_spliter returns the chunks of
\* the documents in the order of the documents, each chunk carrying the
\* source and page of its document, and within a document in increasing
\* start_index.
C18_OrderKept ==
    \A p \in Callers :
        /\ (Done(p, "load_documents") /\ ret[p].kind = "return")
           => ret[p].documents = InPathOrder(arg[p].files, 1)
        /\ Done(p, "text_spliter")
           => /\ ret[p].chunks = InDocumentOrder(arg[p].documents, 1)
              /\ \A i \in 1..Len(arg[p].documents) :
                    LET doc == arg[p].documents[i]
                        c == text_spliter(<< doc >>)
                    IN  /\ \A j \in 1..Len(c) : SameDocument(c[j], doc)
                        /\ \A j \in 1..(Len(c) - 1) :
                              c[j].start_index < c[j + 1].start_index

\* text_spliter was given what load_documents returns for a .txt file that
\* needs latin-1 and a .pdf file, and returned the two chunks of the first
\* and then the chunk of the second.
C18_Witness ==
    \E p \in Callers :
        /\ Done(p, "text_spliter")
        /\ arg[p].documents = load_documents(<< "b.txt", "e.pdf" >>).documents
        /\ Len(ret[p].chunks) = 3
        /\ ret[p].chunks[1].source = "b.txt"
        /\ ret[p].chunks[2].start_index > 0
        /\ ret[p].chunks[3].source = "e.pdf"

\* The save of caller p lost to a deletion: it returned and chunks of it are
\* not in the index, or its upsert met an index that was gone.
Lost(p) ==
    /\ Done(p, "save_to_pinecone")
    /\ \/ ret[p].ok /\ ~(Range(arg[p].chunks) \subseteq indexRecords)
       \/ /\ ret[p].err = "NotFound"
          /\ trace[p][Len(trace[p])] = "upsert"

\* C20: nothing keeps a save and a save with overwrite=True apart.  A save
\* is lost only to a delete_index, and delete_index is issued only by a save
\* with overwrite=True; the lost save is reachable (C20_Witness).
C20_LostOnlyToOverwrite ==
    \A p \in Callers :
        Lost(p) => \E q \in Callers :
                      /\ arg[q].overwrite
                      /\ "delete_index" \in Range(trace[q])

\* Caller p, without overwrite, found the index listed and went on to its
\* upsert; the other caller's save with overwrite=True deleted the index in
\* between, and the upsert of p met a deleted index.
C20_Witness ==
    \E p, q \in Callers :
        /\ p # q
        /\ Done(p, "save_to_pinecone")
        /\ ~arg[p].overwrite
        /\ trace[p] = << "list_indexes", "upsert" >>
        /\ ret[p].err = "NotFound"
        /\ arg[q].overwrite
        /\ "delete_index" \in Range(trace[q])

\* C23: process_files never raises.  It ends with (True, ...) exactly when
\* its last step is the upsert that put its chunks into the index and made
\* the handle, and with (False, error text) otherwise; when it ends before
\* save_to_pinecone (no paths, or load_documents raised) it has issued no
\* service call and has left the index and the handle as they were.
C23_ProcessFilesReports ==
    [][ \A p \in Callers :
          (pc[p] # "done" /\ pc'[p] = "done" /\ op'[p] = "process_files")
          => /\ ret'[p].kind = "return"
             /\ ret'[p].ok <=> ( /\ pc[p] = "from_documents"
                                 /\ trace'[p][Len(trace'[p])] = "upsert"
                                 /\ indexExists'
                                 /\ vector_db' = "from_documents"
                                 /\ Range(arg[p].chunks) \subseteq indexRecords' )
             /\ ~ret'[p].ok => ret'[p].err # ""
             /\ (pc[p] = "idle" /\ PINECONE_API_KEY)
                => /\ arg'[p].files = << >>
                      \/ load_documents(arg'[p].files).exc.raised
                   /\ ~ret'[p].ok
                   /\ trace'[p] = << >>
                   /\ UNCHANGED << vector_db, service >>
             /\ arg'[p].files = << >> => pc[p] = "idle"
      ]_vars

\* process_files was given a file that loads and then one whose loader
\* raises, with an index that holds records and a handle: it returned
\* (False, ...) naming the second file, without a service call.
C23_Witness ==
    \E p \in Callers :
        /\ Done(p, "process_files")
        /\ arg[p].files = << "a.txt", "f.md" >>
        /\ ret[p].kind = "return" /\ ~ret[p].ok
        /\ ret[p].file = "f.md"
        /\ trace[p] = << >>
        /\ vector_db \in Handles
        /\ X \in indexRecords

\* The call of p deleted the index, and a later step of it failed: the
\* second listing, create_index, the embedding or the upsert.
FailedAfterDelete(p) ==
    /\ pc[p] = "done"
    /\ op[p] \in {"save_to_pinecone", "process_files"}
    /\ ret[p].err # ""
    /\ \E i \in 1..(Len(trace[p]) - 1) :
          trace[p][i] = "delete_index" /\ trace[p][i + 1] # "error"

\* C24: a save with overwrite=True that fails after its delete_index ends
\* with the handle reset and the records of before deleted (gone, or going
\* with the deletion the service has accepted); save_to_pinecone raises and
\* process_files reports (False, ...).
C24_OverwriteNotAtomic ==
    \A p \in Callers :
        FailedAfterDelete(p)
        => /\ arg[p].overwrite
           /\ vector_db = "None"
           /\ indexRecords = {} \/ deleting
           /\ op[p] = "save_to_pinecone" => ret[p].kind = "raise"
           /\ op[p] = "process_files" => ret[p].kind = "return" /\ ~ret[p].ok

\* process_files with overwrite=True deleted an index, created it again, and
\* the embedding of its chunks failed: it reported (False, ...), the index is
\* empty and no handle is cached.
C24_Witness ==
    \E p \in Callers :
        /\ Done(p, "process_files")
        /\ arg[p].chunks # << >>
        /\ trace[p] = << "list_indexes", "delete_index", "list_indexes",
                         "create_index", "embed", "error" >>
        /\ ~ret[p].ok
        /\ indexExists /\ indexRecords = {}
        /\ vector_db = "None"

\* C25: the handle is held only while the index is there: whenever
\* _vector_db holds a handle the index is listed, and no query_data call
\* finds the index gone behind its handle.
C25_HandleOnlyWhileIndexExists ==
    /\ vector_db \in Handles => Listed
    /\ \A p \in Callers :
          Done(p, "query_data") => ret[p].err # "NotFound"

QueryPath(p) == op[p] \in {"get_vector_db", "query_data"}

\* C27: a step of get_vector_db or query_data leaves the index as it is;
\* finding no handle and the index not listed, it leaves the handle
\* uninitialized, and the next call lists the indexes again; and a query
\* through the handle of a successful save is served from the index: it does
\* not find the index gone.
C27_QueryPathReadsOnly ==
    [][ \A p \in Callers :
          /\ (QueryPath(p) /\ pc'[p] # pc[p]) => UNCHANGED service
          /\ (pc[p] = "idle" /\ op'[p] \in {"get_vector_db", "query_data"})
             => UNCHANGED << service, vector_db >>
          /\ ( /\ pc[p] = "get_vector_db" /\ pc'[p] # "get_vector_db"
               /\ vector_db = "None" /\ ~Listed )
             => /\ vector_db' = "None"
                /\ PINECONE_API_KEY => trace'[p][1] = "list_indexes"
          /\ ( /\ pc[p] = "similarity_search" /\ pc'[p] = "done"
               /\ vector_db = "from_documents" )
             => ret'[p].err # "NotFound"
      ]_vars


\* The ids migrate_from_chromadb gives to a source of n vectors.
MigratedIds(n) == { << "migrated_doc", i >> : i \in 0..(n - 1) }

\* C21: migrate_from_chromadb is idempotent on the record ids.  Source vector
\* i goes under the id 'migrated_doc_i' and an upsert replaces the record of
\* that id, so a run adds no id but those of its n source vectors, no two
\* records share an id, and a run over a source whose ids the index already
\* held (a second run over the same collection) ends with the same set of ids
\* and the same number of records as before it.
C21_MigrationIdempotent ==
    \A p \in Callers :
        Done(p, "migrate_from_chromadb") =>
            /\ Ids(indexRecords) \subseteq arg[p].ids0 \cup MigratedIds(arg[p].n)
            /\ Cardinality(indexRecords) = Cardinality(Ids(indexRecords))
            /\ (ret[p].ok /\ arg[p].batch_size > 0) =>
                   MigratedIds(arg[p].n) \subseteq Ids(indexRecords)
            /\ MigratedIds(arg[p].n) \subseteq arg[p].ids0 =>
                   /\ Ids(indexRecords) = arg[p].ids0
                   /\ Cardinality(indexRecords) = Cardinality(arg[p].ids0)

\* A second run over a source of two vectors has ended: the index held their
\* ids and a record of another writer before it, every migrated record now
\* carries the second run's time, and the ids are the same three.
C21_Witness ==
    /\ Done(1, "migrate_from_chromadb")
    /\ ret[1].ok
    /\ arg[1].n = 2
    /\ arg[1].stamp = 2
    /\ arg[1].ids0 = MigratedIds(2) \cup {Y.id}
    /\ indexRecords = {Y, [id |-> << "migrated_doc", 0 >>, stamp |-> 2],
                          [id |-> << "migrated_doc", 1 >>, stamp |-> 2]}
    /\ Len(arg[1].batches) = 2

\* C22: migrate_from_chromadb upserts the source vectors in consecutive
\* batches of at most batch_size, in source order, each vector in exactly one
\* batch; True is returned only if every batch was upserted, so that every
\* source vector was sent; the first failing batch ends the run with False,
\* no batch follows it, and the batches before it stay in the index.
C22_BatchesCoverSource ==
    \A p \in Callers :
        Done(p, "migrate_from_chromadb") =>
            LET b == arg[p].batches
                n == arg[p].n
                size == arg[p].batch_size
                t == trace[p]
            IN /\ \A k \in 1..Len(b) :
                      /\ b[k] = ((k - 1) * size) .. (Min(k * size, n) - 1)
                      /\ b[k] # {}
                      /\ Cardinality(b[k]) <= size
               /\ ret[p].kind = "return"
               /\ ret[p].ok => UNION Range(b) = 0..(n - 1)
               /\ \A j \in 1..Len(t) :
                      t[j] = "error" => (j = Len(t) /\ ~ret[p].ok)
               /\ \A k \in 1..Len(b) : \A j \in b[k] :
                      << "migrated_doc", j >> \in Ids(indexRecords)


\* C29: create_index_if_not_exists always terminates: a call that has started
\* returns, True or False, whether the service comes to report the index
\* ready or keeps failing the status call.
C29_CreateIndexTerminates ==
    \A p \in {1} :
        (op[p] = "create_index_if_not_exists" /\ pc[p] # "idle")
            ~> (op[p] = "create_index_if_not_exists" /\ pc[p] = "done")

\* C28: the smoke tests leave no test record behind.  Whenever
\* test_vector_operations, validate_openai_integration or
\* validate_vector_storage_integrity has returned, also after a failing
\* query or embedding, no record it upserted is in the index (a deletion the
\* service itself refused is left aside).
C28_SmokeTestsCleanUp ==
    \A p \in Callers :
        LET t == trace[p]
        IN (/\ pc[p] = "done"
            /\ op[p] \in SmokeTests
            /\ ~(Len(t) >= 2 /\ t[Len(t) - 1] = "delete" /\ t[Len(t)] = "error"))
               => Ids(indexRecords) \cap arg[p].ids = {}

\* The caller has said that an existing index may be destroyed.
Intent(p) ==
    \/ op[p] = "create_index_from_backup" /\ arg[p].force
    \/ op[p] = "recover_from_backup"
           /\ (arg[p].force \/ Lower(arg[p].response) = "y")

\* C30: the recovery tool destroys an existing index only with confirmed
\* intent.  A step of the tool that removes the index, asks the service to
\* delete it or changes its records is a step of create_index_from_backup
\* with force=True or of recover_from_backup with force=True or the answer
\* 'y'; recover_from_backup without force and without that answer returns
\* False at once; create_index_from_backup with force=False never deletes,
\* and while the index is listed it leaves the index and its records as they
\* are and returns False.
C30_DestroyOnlyWithIntent ==
    [][\A p \in {1} :
        /\ (/\ pc'[p] # pc[p]
            /\ Listed
            /\ \/ ~Listed'
               \/ deleting' /\ ~deleting
               \/ indexRecords' # indexRecords) => Intent(p)
        /\ (/\ pc[p] = "idle"
            /\ op'[p] = "recover_from_backup"
            /\ ~arg'[p].force
            /\ Lower(arg'[p].response) # "y")
               => /\ pc'[p] = "done"
                  /\ ret'[p].kind = "return" /\ ~ret'[p].ok
                  /\ UNCHANGED service
        /\ (/\ op[p] = "create_index_from_backup"
            /\ ~arg[p].force
            /\ pc'[p] # pc[p])
               => /\ pc'[p] # "rec_delete"
                  /\ (Listed /\ pc[p] \in {"rec_check", "rec_create"})
                        => /\ UNCHANGED service
                           /\ pc'[p] = "done" =>
                                  (ret'[p].kind = "return" /\ ~ret'[p].ok)
                           /\ pc[p] = "rec_create" => pc'[p] = "done"
    ]_vars

\* create_index_from_backup(force=False) has found the index, which holds a
\* record, and returned False after the listing alone; the index and the
\* record are there.
C30_Witness ==
    /\ Done(1, "create_index_from_backup")
    /\ ~arg[1].force
    /\ ret[1].kind = "return" /\ ~ret[1].ok
    /\ trace[1] = << "list_indexes" >>
    /\ indexExists
    /\ indexRecords = {Y}
    /\ ~deleting
=============================================================================
